---- MODULE Spec2Model ----
(***************************************************************************)
(* Model of scripts/generate_profiles.py: the fragment loader, the         *)
(* collector, the sorter, the catalog builder and the runner (main).       *)
(* Text is a sequence of code points, so that Python's str comparison,     *)
(* startswith, glob suffix match and Path.stem are computed, not assumed.  *)
(***************************************************************************)
EXTENDS Integers, Sequences, FiniteSets, TLC

\* ---------------------------------------------------------------- bounds
\* runs of the script in one behaviour; length of the lists the sorter is tried on
MaxRuns == 2
MaxLen == 3

\* ------------------------------------------------------------------ text
DotJson == <<46, 106, 115, 111, 110>>
DotTxt == <<46, 116, 120, 116>>
S_ab == <<97, 98>>
S_b == <<98>>
S_us == <<95, 98>>

\* the file names a source directory may hold (ab.json, b.json, _b.json, b.txt)
FileNames == {S_ab \o DotJson, S_b \o DotJson, S_us \o DotJson, S_b \o DotTxt}

\* Python str "<": lexicographic by code point, a proper prefix is smaller
RECURSIVE StrLess(_, _)
StrLess(a, b) ==
  IF b = <<>> THEN FALSE
  ELSE IF a = <<>> THEN TRUE
  ELSE IF Head(a) # Head(b) THEN Head(a) < Head(b)
  ELSE StrLess(Tail(a), Tail(b))

\* str.startswith("_")
StartsWithUnderscore(name) == Len(name) >= 1 /\ name[1] = 95

\* Path.glob("*.json"): the name ends in ".json"
GlobMatch(name) ==
  /\ Len(name) >= Len(DotJson)
  /\ SubSeq(name, Len(name) - Len(DotJson) + 1, Len(name)) = DotJson

\* Path.stem: the name up to its last dot, the whole name when the only dot leads it
RECURSIVE LastDot(_, _)
LastDot(name, i) ==
  IF i = 0 THEN 0
  ELSE IF name[i] = 46 THEN i
  ELSE LastDot(name, i - 1)

Stem(name) ==
  LET p == LastDot(name, Len(name))
  IN IF p <= 1 THEN name ELSE SubSeq(name, 1, p - 1)

\* ------------------------------------------------------------------ JSON
required_fields == <<"id", "name", "description", "category", "variables">>

StrId(s) == [t |-> "str", v |-> s]
IntId(n) == [t |-> "int", v |-> <<n>>]

\* ids and categories of the fragments the sorter is applied to
Ids == {StrId(S_ab), StrId(S_b), IntId(1)}
Cats == {"AI", "Misc", "Tools"}

NoMembers == [k \in {} |-> "none"]

JsonObject(m) == [kind |-> "object", members |-> m, items |-> <<>>]
JsonArray(s) == [kind |-> "array", members |-> NoMembers, items |-> s]
JsonNumber == [kind |-> "number", members |-> NoMembers, items |-> <<>>]

FullObject(id, cat) ==
  JsonObject([id |-> id, name |-> "n", description |-> "d",
              category |-> cat, variables |-> "v"])

ValidData ==
  {FullObject(id, cat) : id \in Ids, cat \in Cats} \cup {FullObject(StrId(S_b), "Development")}

\* objects and other JSON values that the loader rejects
NoVariables == JsonObject([id |-> StrId(S_b), name |-> "n", description |-> "d",
                           category |-> "AI"])
ArrayOfNames == JsonArray(required_fields)

\* what open()+json.load() meets in a file
Unreadable == [status |-> "ioerror", data |-> JsonNumber]
BadJson == [status |-> "badjson", data |-> JsonNumber]
Parsed(d) == [status |-> "ok", data |-> d]

RejectedContents ==
  {Unreadable, BadJson, Parsed(JsonNumber), Parsed(ArrayOfNames), Parsed(NoVariables)}

\* the fragments a candidate file of the model's directories may hold
SourceData ==
  {FullObject(StrId(S_b), "AI"), FullObject(StrId(S_ab), "AI"), FullObject(IntId(1), "AI"),
   FullObject(StrId(S_b), "Misc"), FullObject(StrId(S_b), "Tools")}

Contents == RejectedContents \cup {Parsed(d) : d \in SourceData}

\* the contents of the files that are not candidates
SideContents == {BadJson, Parsed(FullObject(StrId(S_b), "AI"))}

ContentsFor(name) ==
  IF ~GlobMatch(name) THEN {BadJson}
  ELSE IF StartsWithUnderscore(name) THEN SideContents
  ELSE Contents

Directories ==
  UNION {{f \in [S -> Contents] : \A n \in S : f[n] \in ContentsFor(n)} :
           S \in SUBSET FileNames}

\* ----------------------------------------------------------- diagnostics
Diag(tag, file, detail, n) == [tag |-> tag, file |-> file, detail |-> detail, n |-> n]

\* ----------------------------------------------------------- load_fragment
None == [ok |-> FALSE, data |-> JsonNumber]
Some(d) == [ok |-> TRUE, data |-> d]

\* `field in data`: key of a dict, element of a list
Contains(data, field) ==
  IF data.kind = "object" THEN field \in DOMAIN data.members
  ELSE \E i \in 1..Len(data.items) : data.items[i] = field

\* variant: the list of required fields lacks "variables"
MissingFields_short(data) ==
  SelectSeq(<<"id", "name", "description", "category">>,
            LAMBDA field : ~Contains(data, field))

MissingFields(data) ==
  SelectSeq(required_fields, LAMBDA field : ~Contains(data, field))

\* variant: an id that differs from the stem is an error, not a warning
load_fragment_strict(name, content) ==
  IF content.status # "ok" \/ content.data.kind # "object"
     \/ MissingFields(content.data) # <<>>
  THEN [result |-> None, out |-> <<Diag("ERROR", name, <<"Error">>, 0)>>]
  ELSE IF content.data.members["id"] # StrId(Stem(name))
  THEN [result |-> None, out |-> <<Diag("WARN", name, <<>>, 0)>>]
  ELSE [result |-> Some(content.data), out |-> <<>>]

load_fragment(name, content) ==
  IF content.status = "ioerror"
  THEN [result |-> None, out |-> <<Diag("ERROR", name, <<"Error">>, 0)>>]
  ELSE IF content.status = "badjson"
  THEN [result |-> None, out |-> <<Diag("ERROR", name, <<"Invalid JSON">>, 0)>>]
  ELSE LET data == content.data IN
    IF data.kind = "number"
    THEN \* `field not in data` raises TypeError
      [result |-> None, out |-> <<Diag("ERROR", name, <<"Error">>, 0)>>]
    ELSE IF MissingFields(data) # <<>>
    THEN [result |-> None,
          out |-> <<Diag("ERROR", name, <<"Missing">> \o MissingFields(data), 0)>>]
    ELSE IF data.kind # "object"
    THEN \* data["id"] on a list raises TypeError
      [result |-> None, out |-> <<Diag("ERROR", name, <<"Error">>, 0)>>]
    ELSE IF data.members["id"] # StrId(Stem(name))
    THEN [result |-> Some(data), out |-> <<Diag("WARN", name, <<>>, 0)>>]
    ELSE [result |-> Some(data), out |-> <<>>]

\* `if fragment:` None and an empty dict are falsy
Truthy(r) == r.ok /\ (r.data.kind = "object" => DOMAIN r.data.members # {})

\* ------------------------------------------------------- collect_fragments
\* every order in which the filesystem may enumerate the names of S
Orderings(S) ==
  {o \in [1..Cardinality(S) -> S] : \A i, j \in 1..Cardinality(S) : o[i] = o[j] => i = j}

\* sorted() of Path objects of one directory: ascending by name
RECURSIVE InsertPath(_, _)
InsertPath(s, x) ==
  IF s = <<>> THEN <<x>>
  ELSE IF StrLess(x, s[Len(s)])
       THEN Append(InsertPath(SubSeq(s, 1, Len(s) - 1), x), s[Len(s)])
       ELSE Append(s, x)

RECURSIVE sorted_paths(_)
sorted_paths(s) ==
  IF s = <<>> THEN <<>>
  ELSE InsertPath(sorted_paths(SubSeq(s, 1, Len(s) - 1)), s[Len(s)])

\* variant: the candidates are taken in enumeration order
candidate_files_unsorted(enumeration) ==
  SelectSeq(enumeration, LAMBDA f : GlobMatch(f) /\ ~StartsWithUnderscore(f))

\* variant: every *.json file is a candidate
candidate_files_all(enumeration) ==
  sorted_paths(SelectSeq(enumeration, LAMBDA f : GlobMatch(f)))

\* the list comprehension of lines 65-68 over one enumeration of the directory
candidate_files(enumeration) ==
  sorted_paths(SelectSeq(enumeration,
                         LAMBDA f : GlobMatch(f) /\ ~StartsWithUnderscore(f)))

\* ---------------------------------------------------------- sort_fragments
category_order == <<"Development", "AI", "Cloud", "DevOps", "Database", "Network", "CI/CD">>

\* dict.get(key, default)
Get(f, key, default) == IF key \in DOMAIN f.members THEN f.members[key] ELSE default

\* variant: a category that is not listed gets index -1, as str.find would give
cat_index_find(category) ==
  IF \E i \in 1..Len(category_order) : category_order[i] = category
  THEN (CHOOSE i \in 1..Len(category_order) : category_order[i] = category) - 1
  ELSE 0 - 1

\* list.index, 0-based; ValueError is answered with len(category_order)
cat_index(category) ==
  IF \E i \in 1..Len(category_order) : category_order[i] = category
  THEN (CHOOSE i \in 1..Len(category_order) :
          /\ category_order[i] = category
          /\ \A j \in 1..(i - 1) : category_order[j] # category) - 1
  ELSE Len(category_order)

sort_key(f) == [rank |-> cat_index(Get(f, "category", "ZZZ")),
                id |-> Get(f, "id", StrId(<<>>))]

\* tuple "<" on two keys: "lt", "ge", or "error" when str meets int (TypeError)
KeyLess(k1, k2) ==
  IF k1.rank # k2.rank THEN (IF k1.rank < k2.rank THEN "lt" ELSE "ge")
  ELSE IF k1.id = k2.id THEN "ge"
  ELSE IF k1.id.t # k2.id.t THEN "error"
  ELSE IF k1.id.t = "str" THEN (IF StrLess(k1.id.v, k2.id.v) THEN "lt" ELSE "ge")
  ELSE (IF k1.id.v[1] < k2.id.v[1] THEN "lt" ELSE "ge")

Raised == [raised |-> TRUE, value |-> <<>>]
Returned(s) == [raised |-> FALSE, value |-> s]

\* sorted(..., key=sort_key) is a stable sort: x goes behind every element
\* that is not greater. A comparison that raises ends the sort.
RECURSIVE InsertByKey(_, _)
InsertByKey(s, x) ==
  IF s = <<>> THEN Returned(<<x>>)
  ELSE LET c == KeyLess(sort_key(x), sort_key(s[Len(s)]))
       IN IF c = "error" THEN Raised
          ELSE IF c = "ge" THEN Returned(Append(s, x))
          ELSE LET r == InsertByKey(SubSeq(s, 1, Len(s) - 1), x)
               IN IF r.raised THEN Raised
                  ELSE Returned(Append(r.value, s[Len(s)]))

RECURSIVE sort_fragments(_)
sort_fragments(fs) ==
  IF fs = <<>> THEN Returned(<<>>)
  ELSE LET r == sort_fragments(SubSeq(fs, 1, Len(fs) - 1))
       IN IF r.raised THEN Raised ELSE InsertByKey(r.value, fs[Len(fs)])

\* -------------------------------------------------------- generate_profile
generate_profile(fs, date) ==
  [version |-> "1.0.0", lastUpdated |-> date, author |-> "TCM Community",
   description |-> "Terminal Context Manager - Profile Templates & Environment Variables Dictionary",
   repository |-> "https://github.com/ZhiZeYi/terminal-context-template",
   templates |-> fs]

NoProfile == generate_profile(<<>>, 0)

\* json.dumps: the members of the envelope in insertion order
json_dumps(p) ==
  <<[key |-> "version", str |-> p.version, date |-> 0, list |-> <<>>],
    [key |-> "lastUpdated", str |-> "", date |-> p.lastUpdated, list |-> <<>>],
    [key |-> "author", str |-> p.author, date |-> 0, list |-> <<>>],
    [key |-> "description", str |-> p.description, date |-> 0, list |-> <<>>],
    [key |-> "repository", str |-> p.repository, date |-> 0, list |-> <<>>],
    [key |-> "templates", str |-> "", date |-> 0, list |-> p.templates]>>

\* ------------------------------------------------------------- output file
NoFile == [exists |-> FALSE, lines |-> <<>>]
\* a catalog left by an earlier generation
StaleFile == [exists |-> TRUE,
              lines |-> <<[text |-> json_dumps(NoProfile), eol |-> TRUE]>>]

\* variant: the file is opened for appending
open_a(file) == [exists |-> TRUE, lines |-> file.lines]

\* open(OUTPUT_FILE, "w"): create or truncate
open_w(file) == [exists |-> TRUE, lines |-> <<>>]

\* f.write(output_json); f.write("\n")
write_output(file, output_json) ==
  LET opened == open_w(file)
  IN [opened EXCEPT !.lines = Append(@, [text |-> output_json, eol |-> TRUE])]

\* -------------------------------------------------------------------- state
VARIABLES source_exists, files, out_dir, out_file, today, runs,
          pc, args, json_files, idx, loads, fragments, sorted_fragments,
          profile, console, exit_code

vars == <<source_exists, files, out_dir, out_file, today, runs,
          pc, args, json_files, idx, loads, fragments, sorted_fragments,
          profile, console, exit_code>>

world == <<source_exists, files, today>>
locals == <<json_files, idx, loads, fragments, sorted_fragments, profile>>

NoArgs == [validate |-> FALSE, dry_run |-> FALSE]

Init ==
  /\ source_exists \in BOOLEAN
  /\ files \in Directories
  /\ (~source_exists => files = <<>>)
  /\ out_file \in {NoFile, StaleFile}
  /\ out_dir = out_file.exists
  /\ today = 1
  /\ runs = 0
  /\ pc = "idle"
  /\ args = NoArgs
  /\ json_files = <<>>
  /\ idx = 1
  /\ loads = <<>>
  /\ fragments = <<>>
  /\ sorted_fragments = <<>>
  /\ profile = NoProfile
  /\ console = <<>>
  /\ exit_code = -1

\* a new process: argparse and the banner (lines 119-136)
main_start(validate, dry_run) ==
  /\ pc \in {"idle", "done"}
  /\ runs < MaxRuns
  /\ runs' = runs + 1
  /\ args' = [validate |-> validate, dry_run |-> dry_run]
  /\ console' = <<Diag("BANNER", <<>>, <<>>, 0)>>
  /\ json_files' = <<>>
  /\ idx' = 1
  /\ loads' = <<>>
  /\ fragments' = <<>>
  /\ sorted_fragments' = <<>>
  /\ profile' = NoProfile
  /\ exit_code' = -1
  /\ pc' = "collect"
  /\ UNCHANGED <<world, out_dir, out_file>>

\* collect_fragments up to the loop (lines 58-71)
collect_begin ==
  /\ pc = "collect"
  /\ IF ~source_exists
     THEN /\ console' = Append(console, Diag("ERROR", <<>>, <<"no source directory">>, 0))
          /\ json_files' = <<>>
          /\ pc' = "check"
     ELSE \E enumeration \in Orderings(DOMAIN files) :
            /\ json_files' = candidate_files(enumeration)
            /\ console' = console \o <<Diag("DIR", <<>>, <<>>, 0),
                                        Diag("FOUND", <<>>, <<>>, Len(json_files'))>>
            /\ pc' = "loop"
  /\ UNCHANGED <<world, out_dir, out_file, runs, args, idx, loads, fragments,
                 sorted_fragments, profile, exit_code>>

\* variant: a failed load ends the loop
collect_load_break ==
  /\ pc = "loop"
  /\ idx <= Len(json_files)
  /\ LET file_path == json_files[idx]
         r == load_fragment(file_path, files[file_path])
     IN /\ loads' = Append(loads, file_path)
        /\ IF Truthy(r.result)
           THEN /\ fragments' = Append(fragments, r.result.data)
                /\ console' = console \o r.out
                                \o <<Diag("OK", file_path, <<r.result.data.members["name"]>>, 0)>>
                /\ idx' = idx + 1
           ELSE /\ fragments' = fragments
                /\ console' = console \o r.out
                /\ idx' = Len(json_files) + 1
  /\ UNCHANGED <<world, out_dir, out_file, runs, pc, args, json_files,
                 sorted_fragments, profile, exit_code>>

\* one iteration of the loop (lines 73-77), load_fragment included
collect_load ==
  /\ pc = "loop"
  /\ idx <= Len(json_files)
  /\ LET file_path == json_files[idx]
         r == load_fragment(file_path, files[file_path])
     IN /\ loads' = Append(loads, file_path)
        /\ IF Truthy(r.result)
           THEN /\ fragments' = Append(fragments, r.result.data)
                /\ console' = console \o r.out
                                \o <<Diag("OK", file_path, <<r.result.data.members["name"]>>, 0)>>
           ELSE /\ fragments' = fragments
                /\ console' = console \o r.out
  /\ idx' = idx + 1
  /\ UNCHANGED <<world, out_dir, out_file, runs, pc, args, json_files,
                 sorted_fragments, profile, exit_code>>

\* the loop is exhausted: return fragments (line 79)
collect_return ==
  /\ pc = "loop"
  /\ idx > Len(json_files)
  /\ pc' = "check"
  /\ UNCHANGED <<world, out_dir, out_file, runs, args, json_files, idx, loads, fragments,
                 sorted_fragments, profile, console, exit_code>>

\* variant: an empty list is reported but the run goes on
main_check_no_exit ==
  /\ pc = "check"
  /\ IF fragments = <<>>
     THEN /\ console' = Append(console, Diag("ERROR", <<>>, <<"No valid fragments found!">>, 0))
          /\ exit_code' = exit_code
          /\ pc' = "sort"
     ELSE IF args.validate
     THEN /\ console' = console \o <<Diag("SUMMARY", <<>>, <<>>, Len(fragments)),
                                      Diag("OK", <<>>, <<"Validation complete">>, 0)>>
          /\ exit_code' = 0
          /\ pc' = "done"
     ELSE /\ console' = Append(console, Diag("SUMMARY", <<>>, <<>>, Len(fragments)))
          /\ exit_code' = exit_code
          /\ pc' = "sort"
  /\ UNCHANGED <<world, out_dir, out_file, runs, args, locals>>

\* lines 141-149
main_check ==
  /\ pc = "check"
  /\ IF fragments = <<>>
     THEN /\ console' = Append(console, Diag("ERROR", <<>>, <<"No valid fragments found!">>, 0))
          /\ exit_code' = 1
          /\ pc' = "done"
     ELSE IF args.validate
     THEN /\ console' = console \o <<Diag("SUMMARY", <<>>, <<>>, Len(fragments)),
                                      Diag("OK", <<>>, <<"Validation complete">>, 0)>>
          /\ exit_code' = 0
          /\ pc' = "done"
     ELSE /\ console' = Append(console, Diag("SUMMARY", <<>>, <<>>, Len(fragments)))
          /\ exit_code' = exit_code
          /\ pc' = "sort"
  /\ UNCHANGED <<world, out_dir, out_file, runs, args, locals>>

\* line 152; an uncaught TypeError ends the process with a traceback and status 1
main_sort ==
  /\ pc = "sort"
  /\ LET r == sort_fragments(fragments)
     IN IF r.raised
        THEN /\ exit_code' = 1
             /\ pc' = "done"
             /\ sorted_fragments' = sorted_fragments
        ELSE /\ sorted_fragments' = r.value
             /\ exit_code' = exit_code
             /\ pc' = "output"
  /\ UNCHANGED <<world, out_dir, out_file, runs, args, json_files, idx, loads, fragments,
                 profile, console>>

\* variant: the dry run writes the file as well
main_output_writes ==
  /\ pc = "output"
  /\ profile' = generate_profile(sorted_fragments, today)
  /\ out_dir' = TRUE
  /\ out_file' = write_output(out_file, json_dumps(profile'))
  /\ console' = Append(console, Diag("OK", <<>>, <<"Generated">>, Len(sorted_fragments)))
  /\ exit_code' = 0
  /\ pc' = "done"
  /\ UNCHANGED <<world, runs, args, json_files, idx, loads, fragments, sorted_fragments>>

\* lines 155-179: build, serialise, preview or write; the process ends with status 0
main_output ==
  /\ pc = "output"
  /\ profile' = generate_profile(sorted_fragments, today)
  /\ IF args.dry_run
     THEN /\ console' = Append(console, Diag("DRY-RUN", <<>>, <<>>, Len(sorted_fragments)))
          /\ UNCHANGED <<out_dir, out_file>>
     ELSE /\ out_dir' = TRUE
          /\ out_file' = write_output(out_file, json_dumps(profile'))
          /\ console' = Append(console, Diag("OK", <<>>, <<"Generated">>, Len(sorted_fragments)))
  /\ exit_code' = 0
  /\ pc' = "done"
  /\ UNCHANGED <<world, runs, args, json_files, idx, loads, fragments, sorted_fragments>>

\* the calendar date changes between two runs
next_day ==
  /\ pc = "done"
  /\ runs < MaxRuns
  /\ today <= runs
  /\ today' = today + 1
  /\ UNCHANGED <<source_exists, files, out_dir, out_file, runs, pc, args, locals,
                 console, exit_code>>

Next ==
  \/ \E validate, dry_run \in BOOLEAN : main_start(validate, dry_run)
  \/ collect_begin
  \/ collect_load
  \/ collect_return
  \/ main_check
  \/ main_sort
  \/ main_output
  \/ next_day

Spec == Init /\ [][Next]_vars

\* ------------------------------------------------ the sorter on its own
\* A directory of up to MaxLen candidate files (b.json, c.json, ...), each
\* holding any valid fragment, is collected and sorted; the sorter is then
\* applied once more to its own output.
SortNames(k) == {<<97 + i>> \o DotJson : i \in 1..k}

SortDirectories == UNION {[SortNames(k) -> {Parsed(d) : d \in ValidData}] : k \in 0..MaxLen}

SortInit ==
  /\ source_exists = TRUE
  /\ files \in SortDirectories
  /\ out_file = NoFile
  /\ out_dir = FALSE
  /\ today = 1
  /\ runs = 0
  /\ pc = "collect"
  /\ args = NoArgs
  /\ json_files = <<>>
  /\ idx = 1
  /\ loads = <<>>
  /\ fragments = <<>>
  /\ sorted_fragments = <<>>
  /\ profile = NoProfile
  /\ console = <<>>
  /\ exit_code = -1

\* sort_fragments applied to the list it returned
sort_again ==
  /\ pc = "output"
  /\ runs = 0
  /\ runs' = 1
  /\ fragments' = sorted_fragments
  /\ pc' = "sort"
  /\ UNCHANGED <<world, out_dir, out_file, args, json_files, idx, loads, sorted_fragments,
                 profile, console, exit_code>>

SortNext ==
  \/ collect_begin
  \/ collect_load
  \/ collect_return
  \/ main_check
  \/ main_sort
  \/ sort_again

SortSpec == SortInit /\ [][SortNext]_vars

\* ---------------------------------------------------- what the claims say
\* the claims' own reading of the directory, independent of the code above
EndsInJson(n) == Len(n) >= 5 /\ [i \in 1..5 |-> n[Len(n) - 5 + i]] = DotJson

IsCandidate(n) == n \in DOMAIN files /\ EndsInJson(n) /\ n[1] # 95

CandidateNames == {n \in DOMAIN files : IsCandidate(n)}

FilenameStem(n) == [i \in 1..(Len(n) - 5) |-> n[i]]

Accepted(c) ==
  /\ c.status = "ok"
  /\ c.data.kind = "object"
  /\ {"id", "name", "description", "category", "variables"} \subseteq DOMAIN c.data.members

LexLess(a, b) ==
  \/ Len(a) < Len(b) /\ \A i \in 1..Len(a) : a[i] = b[i]
  \/ \E i \in 1..Len(a) :
       /\ i <= Len(b)
       /\ a[i] < b[i]
       /\ \A j \in 1..(i - 1) : a[j] = b[j]

NamesAscending ==
  CHOOSE s \in Orderings(CandidateNames) : \A i \in 1..(Len(s) - 1) : LexLess(s[i], s[i + 1])

AcceptedNames == SelectSeq(NamesAscending, LAMBDA n : Accepted(files[n]))

AcceptedList == [i \in 1..Len(AcceptedNames) |-> files[AcceptedNames[i]].data]

ZeroValid == ~source_exists \/ AcceptedNames = <<>>

ClaimRank(category) ==
  CASE category = "Development" -> 0
    [] category = "AI" -> 1
    [] category = "Cloud" -> 2
    [] category = "DevOps" -> 3
    [] category = "Database" -> 4
    [] category = "Network" -> 5
    [] category = "CI/CD" -> 6
    [] OTHER -> 7

RankOf(f) == ClaimRank(f.members["category"])
IdOf(f) == f.members["id"]
IsStr(f) == IdOf(f).t = "str"

IdLeq(a, b) ==
  \/ IdOf(a) = IdOf(b)
  \/ IsStr(a) /\ IsStr(b) /\ LexLess(IdOf(a).v, IdOf(b).v)
  \/ ~IsStr(a) /\ ~IsStr(b) /\ IdOf(a).v[1] < IdOf(b).v[1]

Count(s, x) == Cardinality({i \in 1..Len(s) : s[i] = x})

IsPermutation(s, t) ==
  /\ Len(s) = Len(t)
  /\ \A i \in 1..Len(s) : Count(s, s[i]) = Count(t, s[i])

Generate == ~args.validate /\ ~args.dry_run
CatalogProduced == pc = "done" /\ exit_code = 0 /\ ~args.validate

\* ------------------------------------------------------------------- C2
Ordered(s) ==
  \A i \in 1..(Len(s) - 1) :
    \/ RankOf(s[i]) < RankOf(s[i + 1])
    \/ RankOf(s[i]) = RankOf(s[i + 1]) /\ IdLeq(s[i], s[i + 1])

UnknownLast(s) ==
  \A i, j \in 1..Len(s) : RankOf(s[i]) < 7 /\ RankOf(s[j]) = 7 => i < j

\* C2 as stated: for every non-empty list of valid fragments sort_fragments
\* returns, and what it returns is a permutation of its input in which
\* adjacent fragments a, b have rank(a) < rank(b), or equal ranks and
\* a.id <= b.id, fragments of unlisted categories coming after all others.
SortReturnsOrderedPermutation ==
  pc \in {"output", "done"} /\ fragments # <<>> =>
    /\ pc = "output"
    /\ IsPermutation(sorted_fragments, fragments)
    /\ Ordered(sorted_fragments)
    /\ UnknownLast(sorted_fragments)

\* What holds of the sorter: whenever it returns, its result is such an
\* ordered permutation, and it returns for every list whose ids are strings.
SortedPermutation ==
  /\ pc = "output" =>
       /\ IsPermutation(sorted_fragments, fragments)
       /\ Ordered(sorted_fragments)
       /\ UnknownLast(sorted_fragments)
  /\ pc = "done" /\ fragments # <<>> =>
       \E i \in 1..Len(fragments) : ~IsStr(fragments[i])

SortedPermutationWitness ==
  /\ pc = "output"
  /\ runs = 0
  /\ Len(fragments) = 3
  /\ sorted_fragments # fragments
  /\ \A i \in 1..3 : IsStr(fragments[i])
  /\ RankOf(fragments[1]) = 7
  /\ RankOf(fragments[2]) = 1
  /\ RankOf(fragments[3]) = 1
  /\ LexLess(IdOf(fragments[3]).v, IdOf(fragments[2]).v)

\* ------------------------------------------------------------------- C7
Permuted(s) == {[i \in 1..Len(s) |-> s[o[i]]] : o \in Orderings(1..Len(s))}

PairsOf(s) == [i \in 1..Len(s) |-> <<s[i].members["category"], IdOf(s[i])>>]

RankIdOf(s) == [i \in 1..Len(s) |-> <<RankOf(s[i]), IdOf(s[i])>>]

DistinctKeys(s) ==
  \A i, j \in 1..Len(s) :
    RankOf(s[i]) = RankOf(s[j]) /\ IdOf(s[i]) = IdOf(s[j]) => s[i] = s[j]

\* C7 as stated: every permutation of the input is sorted into the same
\* order of (category, id) pairs.
SameOrderForEveryPermutation ==
  pc = "output" =>
    \A p \in Permuted(fragments) :
      /\ ~sort_fragments(p).raised
      /\ PairsOf(sort_fragments(p).value) = PairsOf(sorted_fragments)

\* C7 amended: every permutation of the input is sorted into the same
\* sequence of (rank, id) keys, and into the same list when no two different
\* fragments share a key; the sorter raises for all permutations or for
\* none; sorting the output again returns it unchanged; and the sorted list
\* is the one obtained from the accepted files taken in filename order,
\* whatever the enumeration order of the directory.
SameKeysForEveryPermutation ==
  /\ pc = "output" /\ runs = 0 =>
       \A p \in Permuted(fragments) :
         LET r == sort_fragments(p)
         IN /\ ~r.raised
            /\ RankIdOf(r.value) = RankIdOf(sorted_fragments)
            /\ DistinctKeys(fragments) => r.value = sorted_fragments
  /\ pc = "output" =>
       /\ sort_fragments(sorted_fragments) = Returned(sorted_fragments)
       /\ sorted_fragments = sort_fragments(AcceptedList).value
  /\ pc = "done" /\ fragments # <<>> =>
       \A p \in Permuted(fragments) : sort_fragments(p).raised

SameKeysWitness ==
  /\ pc = "output"
  /\ runs = 1
  /\ Len(fragments) = 3
  /\ ~DistinctKeys(fragments)
  /\ \E p \in Permuted(AcceptedList) : sort_fragments(p).value # sorted_fragments

\* ------------------------------------------------------------------- C1
HasRequired(f) ==
  f.kind = "object" /\
  {"id", "name", "description", "category", "variables"} \subseteq DOMAIN f.members

FromAcceptedFile(f) == \E n \in CandidateNames : Accepted(files[n]) /\ files[n].data = f

\* C1: every entry of the catalog's templates, in memory and in the written
\* file, carries the five required attributes and is the content of a
\* candidate file that parsed and carried them; there are no more entries
\* than accepted files.
TemplatesAreAcceptedFragments ==
  /\ \A i \in 1..Len(profile.templates) :
       HasRequired(profile.templates[i]) /\ FromAcceptedFile(profile.templates[i])
  /\ CatalogProduced => IsPermutation(profile.templates, AcceptedList)
  /\ CatalogProduced /\ Generate =>
       out_file.lines[Len(out_file.lines)].text[6].list = profile.templates

TemplatesWitness ==
  /\ CatalogProduced
  /\ Generate
  /\ Len(profile.templates) = 1
  /\ \E n \in CandidateNames : files[n] = Parsed(NoVariables)

\* ------------------------------------------------------------------- C3
LastDiag == console[Len(console)]

\* C3: when no candidate yields a valid fragment (source directory missing,
\* no candidate file, or every candidate rejected) the run ends with exit
\* code 1 right after the "No valid fragments found!" ERROR, in every mode,
\* and no step of it changes the output file or its directory.
ZeroValidExitsOneUntouched ==
  /\ [](ZeroValid /\ pc = "done" =>
          /\ exit_code = 1
          /\ LastDiag.tag = "ERROR"
          /\ LastDiag.detail = <<"No valid fragments found!">>)
  /\ [](ZeroValid => pc \notin {"sort", "output"})
  /\ [][ZeroValid => out_file' = out_file /\ out_dir' = out_dir]_vars

ZeroValidWitness ==
  /\ pc = "done"
  /\ exit_code = 1
  /\ Generate
  /\ source_exists
  /\ Len(loads) = 2
  /\ fragments = <<>>
  /\ out_file = StaleFile

\* ------------------------------------------------------------------- C4
\* C4 as stated: a run that accepted at least one fragment ends with exit
\* code 0, and in generate mode with the output file written.
AcceptedFragmentsExitZero ==
  pc = "done" /\ fragments # <<>> =>
    /\ exit_code = 0
    /\ Generate => out_file.exists /\ out_file.lines # <<>>
                   /\ out_file.lines[1].text = json_dumps(profile)

\* ------------------------------------------------------------------- C5
\* C5: a step changes the output file or creates its directory only in the
\* output stage of a run that has neither --validate nor --dry-run and that
\* collected at least one fragment.
OnlyGenerateWrites ==
  [][out_file' # out_file \/ out_dir' # out_dir =>
       pc = "output" /\ Generate /\ fragments # <<>>]_vars

DryRunWitness ==
  /\ pc = "done"
  /\ exit_code = 0
  /\ args.dry_run
  /\ ~args.validate
  /\ profile.templates # <<>>
  /\ ~out_file.exists
  /\ ~out_dir

\* ------------------------------------------------------------------- C6
Prefix(s, k) == [i \in 1..k |-> s[i]]

LoadedAccepted == SelectSeq(loads, LAMBDA n : Accepted(files[n]))

\* C6: the loader is called on the candidates in ascending filename order,
\* each once, a failed load never ending the loop; the list collected so far
\* holds, in that order, exactly the loaded files that are valid, and the
\* list returned holds those of all candidates.
CollectorVisitsAll ==
  /\ Len(loads) <= Len(NamesAscending)
  /\ loads = Prefix(NamesAscending, Len(loads))
  /\ fragments = [i \in 1..Len(LoadedAccepted) |-> files[LoadedAccepted[i]].data]
  /\ pc \in {"check", "sort", "output", "done"} /\ source_exists =>
       loads = NamesAscending /\ fragments = AcceptedList

CollectorWitness ==
  /\ pc = "check"
  /\ Len(loads) = 2
  /\ ~Accepted(files[loads[1]])
  /\ Accepted(files[loads[2]])
  /\ Len(fragments) = 1

\* ------------------------------------------------------------------- C8
Underscored == {n \in DOMAIN files : n[1] = 95}

FoundCounts == {console[i].n : i \in {j \in 1..Len(console) : console[j].tag = "FOUND"}}

\* C8: a file whose name starts with "_" is never passed to the loader, no
\* diagnostic names it, the "Found N" count leaves it out, and the list of
\* fragments has one entry for each valid file that does not start with "_"
\* and no other.
UnderscoreFilesIgnored ==
  /\ \A i \in 1..Len(loads) : loads[i] \notin Underscored
  /\ \A i \in 1..Len(console) : console[i].file \notin Underscored
  /\ \A c \in FoundCounts : c = Cardinality(CandidateNames)
  /\ Len(fragments) <= Cardinality({n \in DOMAIN files \ Underscored :
                                      EndsInJson(n) /\ Accepted(files[n])})
  /\ Len(profile.templates) <= Len(fragments)

UnderscoreWitness ==
  /\ CatalogProduced
  /\ \E n \in Underscored : Accepted(files[n])
  /\ Len(profile.templates) = 2
  /\ 2 \in FoundCounts

\* ------------------------------------------------------------------- C9
Warned(n) == \E i \in 1..Len(console) : console[i].tag = "WARN" /\ console[i].file = n
WarnCount(n) == Cardinality({i \in 1..Len(console) : console[i].tag = "WARN" /\ console[i].file = n})

IdDiffers(n) == files[n].data.members["id"] # [t |-> "str", v |-> FilenameStem(n)]

Loaded(n) == \E i \in 1..Len(loads) : loads[i] = n

\* C9: for a loaded file that parses with the five required attributes, one
\* WARN names it if its id differs from the filename stem and none if it is
\* equal; either way the fragment is collected as it is in the file, and it
\* is in the templates of the catalog the run produces.
MismatchWarnsAndKeeps ==
  \A n \in CandidateNames :
    Accepted(files[n]) /\ Loaded(n) =>
      /\ WarnCount(n) = (IF IdDiffers(n) THEN 1 ELSE 0)
      /\ \E i \in 1..Len(fragments) : fragments[i] = files[n].data
      /\ CatalogProduced =>
           \E i \in 1..Len(profile.templates) : profile.templates[i] = files[n].data

MismatchWitness ==
  /\ CatalogProduced
  /\ Generate
  /\ \E n \in CandidateNames :
       /\ Accepted(files[n]) /\ IdDiffers(n) /\ Warned(n)
       /\ out_file.lines[1].text[6].list[1] = files[n].data
  /\ \E n \in CandidateNames : Accepted(files[n]) /\ ~IdDiffers(n) /\ ~Warned(n)

\* ------------------------------------------------------------------ C10
ExpectedFile(date) ==
  [exists |-> TRUE,
   lines |-> <<[text |-> json_dumps(generate_profile(sort_fragments(AcceptedList).value, date)),
                eol |-> TRUE]>>]

\* C10: the output stage of a generate run leaves in the output file the
\* one line obtained from the accepted fragments and the current date,
\* whatever the file held before; a generate run on a file already generated
\* from the same directory on the same date leaves it identical.
GenerationOverwrites ==
  /\ [][pc = "output" /\ Generate => out_file' = ExpectedFile(today)]_vars
  /\ [][pc = "output" /\ Generate /\ out_file = ExpectedFile(today) => out_file' = out_file]_vars

RegenerationWitness ==
  /\ pc = "output"
  /\ Generate
  /\ runs = 2
  /\ Len(sorted_fragments) = 2
  /\ sorted_fragments # fragments
  /\ out_file = ExpectedFile(today)

====
